---- MODULE Spec2Model ----
(***************************************************************************)
(* A model of haliax/partitioning.py: the thread-local resource mapping    *)
(* (_ResourceMappingHolder), the axis_mapping context manager, and the     *)
(* functions that read the mapping (physical_axis_name, logically_sharded, *)
(* infer_resource_partitions, named_pjit, physical_axis_size,              *)
(* round_axis_for_partitioning).                                           *)
(*                                                                         *)
(* Python values are modelled as tagged records so that values of          *)
(* different Python types stay distinguishable and comparable.             *)
(***************************************************************************)
EXTENDS Integers, Sequences, FiniteSets, TLC

VARIABLES
    resource_mapping,   \* thread -> the attribute thread_data.resource_mapping of that thread
    scopes,             \* thread -> the running axis_mapping generators of that thread, outermost first
    hist,               \* thread -> "fresh" | "clean" | "escaped": what the thread's scopes have done so far
    ret,                \* the most recent call of the API: who called, what it read, what came back
    pj                  \* thread -> the frame of the named_pjit wrapper f running in that thread

vars == <<resource_mapping, scopes, hist, ret, pj>>

\* ------------------------------------------------------------------ bounds

\* Deepest nesting of axis_mapping scopes in one thread.
MaxDepth == 3

\* Largest Axis.size drawn for the axis queries.
MaxSize == 6

\* ------------------------------------------------------------------ values

\* The thread that imported the module (and so ran _ResourceMappingHolder.__init__),
\* and another thread of the same process.
MainThread == "main"
Threads == {"main", "worker"}

LogicalNames == {"batch", "hidden", "out"}
PhysicalNames == {"data", "model"}

\* PhysicalAxisSpec values, and the two non-values a lookup can produce.
Absent == [kind |-> "absent", names |-> <<>>]
PyNone == [kind |-> "None", names |-> <<>>]
Str(n) == [kind |-> "str", names |-> <<n>>]
Tup(ns) == [kind |-> "tuple", names |-> ns]
Lst(ns) == [kind |-> "list", names |-> ns]

\* A dict from logical names to PhysicalAxisSpec: a function that is Absent off its keys.
EmptyDict == [a \in LogicalNames |-> Absent]
Keys(d) == {a \in LogicalNames : d[a] # Absent}

\* The mappings callers pass to axis_mapping, and the keyword overrides.
MapA == [EmptyDict EXCEPT !["batch"] = Str("data")]
KwB == [EmptyDict EXCEPT !["batch"] = Tup(<<"data", "model">>), !["hidden"] = Lst(<<"model">>)]
Mappings == {MapA}
Kwargs == {EmptyDict, KwB}

\* The values of the attribute thread_data.resource_mapping: not set in this thread,
\* None, or a mapping.
Unset == [kind |-> "unset", m |-> EmptyDict]
NoMapping == [kind |-> "None", m |-> EmptyDict]
Active(m) == [kind |-> "map", m |-> m]

\* No call made yet; no named_pjit wrapper running.
NoCall == [op |-> "none", thread |-> MainThread]
Idle == [pc |-> "idle"]

\* A raised exception, as the outcome of a call.
Raise(e) == [tag |-> "raise", exc |-> e]
Raised(v) == v.tag = "raise"

\* ------------------------------------------------------------------ the holder

\* _ResourceMappingHolder.__init__ runs once, in the importing thread: threading.local()
\* gives every thread its own attribute namespace, and the assignment of None sets the
\* attribute in the namespace of the thread that runs it only.
HolderInit(t) == IF t = MainThread THEN NoMapping ELSE Unset

\* The expression _mapping_holder.thread_data.resource_mapping evaluated in thread t:
\* the attribute's value, or AttributeError where the thread never set it.
ReadMapping(t) ==
    IF resource_mapping[t].kind = "unset"
    THEN Raise("AttributeError")
    ELSE [tag |-> "value", value |-> resource_mapping[t]]

\* dict.get(key, None)
DictGet(d, a) == IF d[a] = Absent THEN PyNone ELSE d[a]

\* mapping = dict(mapping); mapping.update(kwargs)
DictUpdate(d, kw) == [a \in LogicalNames |-> IF kw[a] # Absent THEN kw[a] ELSE d[a]]

\* ------------------------------------------------------------------ axis_mapping

\* Lines 46-48: the mapping the scope installs.
MergedMapping(mapping, kwargs) ==
    IF Cardinality(Keys(kwargs)) > 0 THEN DictUpdate(mapping, kwargs) ELSE mapping

\* An exit that clears the mapping instead of restoring the saved one.
RestoreWrong(scope) == NoMapping

\* Line 53, reached when the generator is resumed normally after the yield.
Restore(scope) == scope.old_mapping

Busy(t) == pj[t].pc \notin {"idle"}

Last(s) == s[Len(s)]
Front(s) == SubSeq(s, 1, Len(s) - 1)

\* __enter__ of axis_mapping(mapping, **kwargs) in thread t: lines 46-52, up to the yield.
\* The read on line 50 raises AttributeError in a thread where the attribute is not set;
\* the generator then ends without having assigned anything and the body is not run.
Enter(t, mapping, kwargs) ==
    /\ ~Busy(t)
    /\ Len(scopes[t]) < MaxDepth
    /\ LET merged == MergedMapping(mapping, kwargs)
           old == ReadMapping(t)
       IN IF Raised(old)
          THEN /\ ret' = [op |-> "axis_mapping.enter", thread |-> t, seen |-> old]
               /\ UNCHANGED <<resource_mapping, scopes, hist>>
          ELSE /\ resource_mapping' = [resource_mapping EXCEPT ![t] = Active(merged)]
               /\ scopes' = [scopes EXCEPT ![t] =
                                Append(@, [old_mapping |-> old.value, mapping |-> merged])]
               /\ hist' = [hist EXCEPT ![t] = IF @ = "fresh" THEN "clean" ELSE @]
               /\ ret' = [op |-> "axis_mapping.enter", thread |-> t, seen |-> old]
    /\ UNCHANGED pj

\* __exit__(None, None, None) of the innermost scope of thread t: the generator is resumed
\* after the yield and runs line 53.
Exit(t) ==
    /\ ~Busy(t)
    /\ scopes[t] # <<>>
    /\ LET scope == Last(scopes[t])
       IN /\ resource_mapping' = [resource_mapping EXCEPT ![t] = Restore(scope)]
          /\ scopes' = [scopes EXCEPT ![t] = Front(@)]
          /\ ret' = [op |-> "axis_mapping.exit", thread |-> t, how |-> "normal",
                     old_mapping |-> scope.old_mapping, after |-> Restore(scope)]
    /\ UNCHANGED <<hist, pj>>

\* __exit__(type, value, tb) of the innermost scope of thread t, an exception escaping the
\* with-block (raised in the body, or arriving from a scope nested in it):
\* contextlib throws it into the generator at the yield on line 52; the yield is in no
\* try statement, so the exception leaves the generator there and line 53 is not run.
ExitByException(t) ==
    /\ ~Busy(t)
    /\ scopes[t] # <<>>
    /\ LET scope == Last(scopes[t])
       IN /\ scopes' = [scopes EXCEPT ![t] = Front(@)]
          /\ hist' = [hist EXCEPT ![t] = "escaped"]
          /\ ret' = [op |-> "axis_mapping.exit", thread |-> t, how |-> "exception",
                     old_mapping |-> scope.old_mapping, after |-> resource_mapping[t]]
    /\ UNCHANGED <<resource_mapping, pj>>

\* ------------------------------------------------------------------ pytrees

\* Axis(name, size), and the leaves and containers of a PyTree. A NamedArray is a leaf
\* for every traversal here (is_leaf = is_named_array / named_array_is_leaf): its axes
\* are read, its array is not descended into.
Axis(name, size) == [name |-> name, size |-> size]
NamedArray(axes) == [tag |-> "NamedArray", axes |-> axes, ndim |-> Len(axes), kids |-> <<>>]
PlainArray(ndim) == [tag |-> "array", axes |-> <<>>, ndim |-> ndim, kids |-> <<>>]
OtherLeaf == [tag |-> "other", axes |-> <<>>, ndim |-> 0, kids |-> <<>>]
Tuple(kids) == [tag |-> "tuple", axes |-> <<>>, ndim |-> 0, kids |-> kids]

\* What the traversals put at a leaf: a PartitionSpec, None, or a NamedArray that
\* carries a PartitionSpec in place of its array.
PartitionSpec(entries) == [tag |-> "PartitionSpec", entries |-> entries]
NoneLeaf == [tag |-> "None"]
NamedSpec(pspec, axes) == [tag |-> "NamedArray", array |-> pspec, axes |-> axes]

IsLeaf(node) == node.tag # "tuple"

RECURSIVE NumLeaves(_)
NumLeaves(tree) ==
    IF IsLeaf(tree) THEN 1
    ELSE IF tree.kids = <<>> THEN 0
    ELSE NumLeaves(Head(tree.kids)) + NumLeaves(Tuple(Tail(tree.kids)))

\* The trees the callers pass.
NA_bh == NamedArray(<<Axis("batch", 4), Axis("hidden", 2)>>)
NA_hb == NamedArray(<<Axis("hidden", 2), Axis("batch", 4)>>)
NA_o == NamedArray(<<Axis("out", 2)>>)
NA_0 == NamedArray(<<>>)
Trees ==
    { NA_bh, PlainArray(2), OtherLeaf, Tuple(<<>>),
      Tuple(<<NA_hb, PlainArray(1)>>),
      Tuple(<<Tuple(<<NA_o, OtherLeaf>>), NA_bh, NA_0>>) }

\* ------------------------------------------------------------------ infer_resource_partitions

\* partition_spec giving a leaf that is not a NamedArray an empty PartitionSpec.
partition_spec_replicated(node, axis_resources) ==
    IF node.tag = "NamedArray"
    THEN NamedSpec(PartitionSpec([i \in 1..Len(node.axes) |->
                                     DictGet(axis_resources, node.axes[i].name)]),
                   node.axes)
    ELSE PartitionSpec(<<>>)

\* partition_spec with the entries in reverse axis order.
partition_spec_reversed(node, axis_resources) ==
    IF node.tag = "NamedArray"
    THEN NamedSpec(PartitionSpec([i \in 1..Len(node.axes) |->
                      DictGet(axis_resources, node.axes[Len(node.axes) + 1 - i].name)]),
                   node.axes)
    ELSE NoneLeaf

\* partition_spec(node), lines 112-118, under axis_resources.
partition_spec(node, axis_resources) ==
    IF node.tag = "NamedArray"
    THEN NamedSpec(PartitionSpec([i \in 1..Len(node.axes) |->
                                     DictGet(axis_resources, node.axes[i].name)]),
                   node.axes)
    ELSE NoneLeaf

\* jax.tree_util.tree_map(partition_spec, tree, is_leaf=named_array_is_leaf), line 120.
RECURSIVE partition_tree(_, _)
partition_tree(tree, axis_resources) ==
    IF IsLeaf(tree)
    THEN partition_spec(tree, axis_resources)
    ELSE [tag |-> "tuple",
          kids |-> [i \in 1..Len(tree.kids) |-> partition_tree(tree.kids[i], axis_resources)]]

\* infer_resource_partitions(tree) called in thread t, lines 107-120: the outcome, and
\* the number of leaves partition_spec was applied to.
infer_resource_partitions(t, tree) ==
    LET axis_resources == ReadMapping(t)
    IN IF Raised(axis_resources)
       THEN [out |-> axis_resources, visited |-> 0]
       ELSE IF axis_resources.value.kind = "None"
       THEN [out |-> Raise("ValueError: No resource mapping found"), visited |-> 0]
       ELSE [out |-> [tag |-> "value",
                      value |-> partition_tree(tree, axis_resources.value.m)],
             visited |-> NumLeaves(tree)]

InferResourcePartitions(t, tree) ==
    /\ ~Busy(t)
    /\ LET r == infer_resource_partitions(t, tree)
       IN ret' = [op |-> "infer_resource_partitions", thread |-> t, seen |-> ReadMapping(t),
                  tree |-> tree, result |-> r.out, visited |-> r.visited]
    /\ UNCHANGED <<resource_mapping, scopes, hist, pj>>

\* ------------------------------------------------------------------ logically_sharded

\* The logical_axes argument: omitted (None), or a tree of x's structure with the same
\* logical axis spec, a name or a tuple of names, at every leaf.
LogicalAxesArgs == {PyNone, Str("batch"), Tup(<<"hidden", "batch">>)}

\* tuple(p) if not isinstance(p, str) and isinstance(p, Sequence) else p, line 84.
AsEntry(p) == IF p.kind = "list" THEN Tup(p.names) ELSE p

\* _as_pspec(x, logical_axis), lines 71-86. ensure_tuple makes (a,) of a name.
as_pspec(x, logical_axis, mapping) ==
    LET names == IF x.tag = "NamedArray"
                 THEN [i \in 1..Len(x.axes) |-> DictGet(mapping, x.axes[i].name)]
                 ELSE IF logical_axis # PyNone
                 THEN [i \in 1..Len(logical_axis.names) |->
                          DictGet(mapping, logical_axis.names[i])]
                 ELSE [i \in 1..x.ndim |-> PyNone]
    IN IF x.tag # "NamedArray" /\ logical_axis = PyNone /\ x.tag # "array"
       THEN NoneLeaf
       ELSE PartitionSpec([i \in 1..Len(names) |-> AsEntry(names[i])])

\* tree_map(_as_pspec, x[, logical_axes], is_leaf=is_named_array), lines 88-92.
RECURSIVE pspec_tree(_, _, _)
pspec_tree(x, logical_axes, mapping) ==
    IF IsLeaf(x)
    THEN as_pspec(x, logical_axes, mapping)
    ELSE [tag |-> "tuple",
          kids |-> [i \in 1..Len(x.kids) |-> pspec_tree(x.kids[i], logical_axes, mapping)]]

NoConstraint == [invoked |-> FALSE]

\* The check on line 68.
IsNoMapping(mapping) == mapping.kind = "None"

\* logically_sharded(x, logical_axes) called in thread t, lines 66-94: the outcome and
\* the call of with_sharding_constraint it made, which returns x's values unchanged.
logically_sharded(t, x, logical_axes) ==
    LET mapping == ReadMapping(t)
    IN IF Raised(mapping)
       THEN [out |-> mapping, constraint |-> NoConstraint]
       ELSE IF IsNoMapping(mapping.value)
       THEN [out |-> [tag |-> "value", value |-> x], constraint |-> NoConstraint]
       ELSE [out |-> [tag |-> "value", value |-> x],
             constraint |-> [invoked |-> TRUE,
                             pspec |-> pspec_tree(x, logical_axes, mapping.value.m)]]

LogicallySharded(t, x, logical_axes) ==
    /\ ~Busy(t)
    /\ LET r == logically_sharded(t, x, logical_axes)
       IN ret' = [op |-> "logically_sharded", thread |-> t, seen |-> ReadMapping(t),
                  x |-> x, logical_axes |-> logical_axes,
                  result |-> r.out, constraint |-> r.constraint]
    /\ UNCHANGED <<resource_mapping, scopes, hist, pj>>

\* ------------------------------------------------------------------ physical_axis_name

\* physical_axis_name(axis) called in thread t, lines 171-175.
physical_axis_name(t, axis) ==
    LET mapping == ReadMapping(t)
    IN IF Raised(mapping) THEN mapping
       ELSE IF mapping.value.kind = "None" THEN [tag |-> "value", value |-> PyNone]
       ELSE [tag |-> "value", value |-> DictGet(mapping.value.m, axis.name)]

PhysicalAxisName(t, axis) ==
    /\ ~Busy(t)
    /\ ret' = [op |-> "physical_axis_name", thread |-> t, seen |-> ReadMapping(t),
               axis |-> axis, result |-> physical_axis_name(t, axis)]
    /\ UNCHANGED <<resource_mapping, scopes, hist, pj>>

\* ------------------------------------------------------------------ physical_axis_size

\* jax's thread_resources.env as the call finds it: no env to read a shape from, or a
\* mesh shape, a dict from physical axis names to sizes (empty where no mesh was entered).
NoMesh == [avail |-> FALSE, keys |-> {}, size |-> [p \in PhysicalNames |-> 0]]
MeshShape(keys, size) == [avail |-> TRUE, keys |-> keys, size |-> size]
Meshes ==
    { NoMesh,
      MeshShape({"data", "model"}, [p \in PhysicalNames |-> IF p = "data" THEN 4 ELSE 2]),
      MeshShape({"data", "model"}, [p \in PhysicalNames |-> IF p = "data" THEN 1 ELSE 3]),
      MeshShape({}, [p \in PhysicalNames |-> 0]) }

Return(v) == [tag |-> "value", value |-> v]
ReturnNone == [tag |-> "None"]

\* math.prod
RECURSIVE prod(_)
prod(s) == IF s = <<>> THEN 1 ELSE Head(s) * prod(Tail(s))

\* physical_axis_size(axis) called in thread t with the mesh env as given, lines 184-195.
physical_axis_size(t, axis, mesh) ==
    IF ~mesh.avail
    THEN Raise("ValueError: No resource mapping found")
    ELSE LET name == physical_axis_name(t, axis)
         IN IF Raised(name) THEN name
            ELSE IF name.value = PyNone THEN ReturnNone
            ELSE LET names == name.value.names
                 IN IF \E i \in 1..Len(names) : names[i] \notin mesh.keys
                    THEN Raise("KeyError")
                    ELSE Return(prod([i \in 1..Len(names) |-> mesh.size[names[i]]]))

PhysicalAxisSize(t, axis, mesh) ==
    /\ ~Busy(t)
    /\ ret' = [op |-> "physical_axis_size", thread |-> t, seen |-> ReadMapping(t),
               axis |-> axis, mesh |-> mesh, result |-> physical_axis_size(t, axis, mesh)]
    /\ UNCHANGED <<resource_mapping, scopes, hist, pj>>

\* ------------------------------------------------------------------ round_axis_for_partitioning

\* Line 210.
RoundUp(n, size) == ((n + size - 1) \div size) * size

\* round_axis_for_partitioning(axis) called in thread t, lines 206-211.
round_axis_for_partitioning(t, axis, mesh) ==
    LET size == physical_axis_size(t, axis, mesh)
    IN IF Raised(size) THEN size
       ELSE IF size = ReturnNone THEN Return(axis)
       ELSE Return(Axis(axis.name, RoundUp(axis.size, size.value)))

RoundAxisForPartitioning(t, axis, mesh) ==
    /\ ~Busy(t)
    /\ ret' = [op |-> "round_axis_for_partitioning", thread |-> t, seen |-> ReadMapping(t),
               axis |-> axis, mesh |-> mesh,
               result |-> round_axis_for_partitioning(t, axis, mesh)]
    /\ UNCHANGED <<resource_mapping, scopes, hist, pj>>

\* ------------------------------------------------------------------ named_pjit

\* The (args, kwargs) a wrapped function is called with, and the shapes
\* jax.eval_shape(fn, *args, **kwargs) can come back with: fn is any function, and a
\* PlainArray stands for a bare ShapeDtypeStruct in its output.
CallArgs ==
    { Tuple(<<Tuple(<<NA_bh>>), Tuple(<<>>)>>),
      Tuple(<<Tuple(<<NA_hb, PlainArray(1)>>), Tuple(<<NA_o>>)>>) }
OutShapes ==
    { NamedArray(<<Axis("batch", 4), Axis("out", 2)>>),
      Tuple(<<NA_hb, PlainArray(2)>>),
      PlainArray(1) }

NoTree == [tag |-> "unbound"]

\* The call of pjit with the two partition trees in each other's place.
pjit_call_swapped(frame) ==
    [ev |-> "pjit", in_axis_resources |-> frame.out_resources,
     out_axis_resources |-> frame.in_resources, call_args |-> frame.args]

\* The call on line 164: pjit(fn_to_call, in_resources, out_resources, **pjit_args)
\* applied to (args, kwargs).
pjit_call(frame) ==
    [ev |-> "pjit", in_axis_resources |-> frame.in_resources,
     out_axis_resources |-> frame.out_resources, call_args |-> frame.args]

\* f(*args, **kwargs), line 156: in_resources = infer_resource_partitions((args, kwargs)).
\* An exception of the inference leaves f at once.
PjitCall(t, args) ==
    /\ ~Busy(t)
    /\ LET r == infer_resource_partitions(t, args).out
           ev == [ev |-> "infer_resource_partitions", tree |-> args, out |-> r]
       IN pj' = [pj EXCEPT ![t] =
                    [pc |-> IF Raised(r) THEN "raised" ELSE "eval_shape",
                     args |-> args,
                     in_resources |-> IF Raised(r) THEN NoTree ELSE r.value,
                     shapes |-> NoTree,
                     out_resources |-> NoTree,
                     log |-> <<ev>>,
                     result |-> IF Raised(r) THEN r ELSE ReturnNone]]
    /\ UNCHANGED <<resource_mapping, scopes, hist, ret>>

\* Line 157: shapes = jax.eval_shape(fn, *args, **kwargs).
PjitEvalShape(t, shapes) ==
    /\ pj[t].pc = "eval_shape"
    /\ pj' = [pj EXCEPT ![t].pc = "infer_out",
                        ![t].shapes = shapes,
                        ![t].log = Append(@, [ev |-> "eval_shape", call_args |-> pj[t].args,
                                              shapes |-> shapes])]
    /\ UNCHANGED <<resource_mapping, scopes, hist, ret>>

\* Line 158: out_resources = infer_resource_partitions(shapes).
PjitInferOut(t) ==
    /\ pj[t].pc = "infer_out"
    /\ LET r == infer_resource_partitions(t, pj[t].shapes).out
           ev == [ev |-> "infer_resource_partitions", tree |-> pj[t].shapes, out |-> r]
       IN pj' = [pj EXCEPT ![t].pc = IF Raised(r) THEN "raised" ELSE "pjit",
                           ![t].out_resources = IF Raised(r) THEN NoTree ELSE r.value,
                           ![t].log = Append(@, ev),
                           ![t].result = IF Raised(r) THEN r ELSE @]
    /\ UNCHANGED <<resource_mapping, scopes, hist, ret>>

\* Line 164: the call of pjit, whose result f returns.
PjitInvoke(t) ==
    /\ pj[t].pc = "pjit"
    /\ pj' = [pj EXCEPT ![t].pc = "returned",
                        ![t].log = Append(@, pjit_call(pj[t])),
                        ![t].result = Return("result of pjit")]
    /\ UNCHANGED <<resource_mapping, scopes, hist, ret>>

\* f has returned or raised: its frame is gone.
PjitReturn(t) ==
    /\ pj[t].pc \in {"returned", "raised"}
    /\ pj' = [pj EXCEPT ![t] = Idle]
    /\ UNCHANGED <<resource_mapping, scopes, hist, ret>>

\* ------------------------------------------------------------------ specification

Init ==
    /\ resource_mapping = [t \in Threads |-> HolderInit(t)]
    /\ scopes = [t \in Threads |-> <<>>]
    /\ hist = [t \in Threads |-> "fresh"]
    /\ ret = NoCall
    /\ pj = [t \in Threads |-> Idle]

ScopeStep ==
    \E t \in Threads :
        \/ \E m \in Mappings, kw \in Kwargs : Enter(t, m, kw)
        \/ Exit(t)
        \/ ExitByException(t)

QueryStep ==
    \E t \in Threads :
        \/ \E tree \in Trees : InferResourcePartitions(t, tree)
        \/ \E x \in Trees, la \in LogicalAxesArgs : LogicallySharded(t, x, la)
        \/ \E n \in LogicalNames : PhysicalAxisName(t, Axis(n, 4))

Next == ScopeStep \/ QueryStep

Spec == Init /\ [][Next]_vars

\* The scopes with the axis size queries.
AxisStep ==
    \E t \in Threads, n \in LogicalNames, mesh \in Meshes :
        \/ PhysicalAxisSize(t, Axis(n, 4), mesh)
        \/ \E size \in 0..MaxSize : RoundAxisForPartitioning(t, Axis(n, size), mesh)

NextAxis == ScopeStep \/ AxisStep

SpecAxis == Init /\ [][NextAxis]_vars

\* The scopes with calls of a function wrapped by named_pjit.
PjitStep ==
    \E t \in Threads :
        \/ \E args \in CallArgs : PjitCall(t, args)
        \/ \E shapes \in OutShapes : PjitEvalShape(t, shapes)
        \/ PjitInferOut(t)
        \/ PjitInvoke(t)
        \/ PjitReturn(t)

NextPjit == ScopeStep \/ PjitStep

SpecPjit == Init /\ [][NextPjit]_vars

\* ------------------------------------------------------------------ properties of the scopes

ScopeOps == {"axis_mapping.enter", "axis_mapping.exit"}
ReadOps == {"axis_mapping.enter", "logically_sharded", "infer_resource_partitions",
            "physical_axis_name"}

\* The call recorded in ret read an active mapping; it read no active mapping (None, or
\* nothing at all).
SawMapping == ret.seen.tag = "value" /\ ret.seen.value.kind = "map"
SawNoMapping == ~SawMapping

\* C1: when an exception escapes the with-block of an axis_mapping scope, the thread's
\* mapping on leaving the scope is the one that was active just before the scope was
\* entered (at every depth, for every scope the exception passes through).
C1_RestoredOnException ==
    (ret.op = "axis_mapping.exit" /\ ret.how = "exception")
        => ret.after = ret.old_mapping

\* C2: in a thread whose scopes have only been left normally, the active mapping is the
\* one installed by the innermost scope still open, and the mapping from before the
\* first entry once no scope is open.
C2_StackDiscipline ==
    \A t \in Threads :
        hist[t] # "escaped" =>
            resource_mapping[t] = IF scopes[t] = <<>>
                                  THEN HolderInit(t)
                                  ELSE Active(Last(scopes[t]).mapping)

\* A normal exit from an inner scope back into an outer scope holding another mapping.
C2_Witness ==
    /\ ret.op = "axis_mapping.exit" /\ ret.how = "normal" /\ ret.thread = MainThread
    /\ hist[MainThread] = "clean"
    /\ Len(scopes[MainThread]) = 2
    /\ scopes[MainThread][1].mapping # scopes[MainThread][2].mapping

\* C3: a thread that has entered no scope reads None as its current mapping when it
\* calls axis_mapping, logically_sharded, infer_resource_partitions or
\* physical_axis_name, whichever thread it is; and no step of one thread changes the
\* mapping of another.
C3_FreshThreadSeesNone ==
    (ret.op \in ReadOps /\ hist[ret.thread] = "fresh")
        => ret.seen = [tag |-> "value", value |-> NoMapping]

\* The half of C3 that is about interleaving: a step changes the mapping of the thread
\* that took it only, and only by entering or leaving a scope.
ThreadsIndependent ==
    [][\A t \in Threads :
          resource_mapping'[t] # resource_mapping[t]
              => (ret'.thread = t /\ ret'.op \in ScopeOps)]_vars

\* ------------------------------------------------------------------ properties of inference

\* out is tree with every NamedArray leaf replaced by a NamedArray of the same axes that
\* carries a PartitionSpec whose i-th entry is m.get(name of the i-th axis, None), and
\* every other leaf replaced by None.
RECURSIVE Partitioned(_, _, _)
Partitioned(tree, out, m) ==
    IF tree.tag = "NamedArray"
    THEN /\ out.tag = "NamedArray"
         /\ out.axes = tree.axes
         /\ out.array.tag = "PartitionSpec"
         /\ Len(out.array.entries) = Len(tree.axes)
         /\ \A i \in 1..Len(tree.axes) :
               out.array.entries[i] = IF tree.axes[i].name \in Keys(m)
                                      THEN m[tree.axes[i].name]
                                      ELSE PyNone
    ELSE IF IsLeaf(tree)
    THEN out = NoneLeaf
    ELSE /\ out.tag = "tuple"
         /\ Len(out.kids) = Len(tree.kids)
         /\ \A i \in 1..Len(tree.kids) : Partitioned(tree.kids[i], out.kids[i], m)

\* C4: under an active mapping M, infer_resource_partitions(tree) returns a tree of the
\* same structure with every NamedArray leaf replaced by a PartitionSpec of its axis
\* count whose i-th entry is M.get(a_i, None), and every other leaf replaced by None.
C4_InferMatchesMapping ==
    (ret.op = "infer_resource_partitions" /\ SawMapping)
        => /\ ret.result.tag = "value"
           /\ Partitioned(ret.tree, ret.result.value, ret.seen.value.m)

\* Inference over a nested tree with mapped, unmapped and folded axes.
C4_Witness ==
    /\ ret.op = "infer_resource_partitions"
    /\ SawMapping
    /\ ret.seen.value.m = DictUpdate(MapA, KwB)
    /\ ret.tree = Tuple(<<Tuple(<<NA_o, OtherLeaf>>), NA_bh, NA_0>>)
    /\ ret.result.tag = "value"
    /\ ret.result.value.kids[2].array.entries = <<Tup(<<"data", "model">>), Lst(<<"model">>)>>

\* C5: with no active mapping, logically_sharded returns x unchanged, raises nothing
\* and does not call with_sharding_constraint.
C5_NoMappingIsNoOp ==
    (ret.op = "logically_sharded" /\ SawNoMapping)
        => /\ ret.result = [tag |-> "value", value |-> ret.x]
           /\ ~ret.constraint.invoked

\* C5 in the thread that created the holder.
C5_InMainThread ==
    (ret.op = "logically_sharded" /\ SawNoMapping /\ ret.thread = MainThread)
        => /\ ret.result = [tag |-> "value", value |-> ret.x]
           /\ ~ret.constraint.invoked

\* C6: with no active mapping, infer_resource_partitions raises the "No resource
\* mapping found" error for every tree, before any leaf is visited.
C6_NoMappingRaises ==
    (ret.op = "infer_resource_partitions" /\ SawNoMapping)
        => /\ ret.result = Raise("ValueError: No resource mapping found")
           /\ ret.visited = 0

\* C6 in the thread that created the holder.
C6_InMainThread ==
    (ret.op = "infer_resource_partitions" /\ SawNoMapping /\ ret.thread = MainThread)
        => /\ ret.result = Raise("ValueError: No resource mapping found")
           /\ ret.visited = 0

\* ------------------------------------------------------------------ properties of the axis sizes

\* The axis of the call recorded in ret has no physical mapping: no mapping is active in
\* the calling thread, or the axis's name is not a key of the active mapping.
AxisUnmapped == SawNoMapping \/ ret.axis.name \notin Keys(ret.seen.value.m)

\* The physical axes the axis of the call recorded in ret is mapped to, and whether the
\* mesh of the call has a size for each of them.
MappedTo == ret.seen.value.m[ret.axis.name].names
MeshCovers == ret.mesh.avail /\ \A i \in 1..Len(MappedTo) : MappedTo[i] \in ret.mesh.keys
PartitionSize == prod([i \in 1..Len(MappedTo) |-> ret.mesh.size[MappedTo[i]]])

\* C8: physical_axis_size returns None whenever the axis has no physical mapping, mesh
\* or no mesh; for a mapped axis it returns the product of the mesh sizes of its
\* physical axes; the no-mesh error is raised only for a mapped axis with no mesh.
C8_SizeContract ==
    ret.op = "physical_axis_size" =>
        /\ AxisUnmapped => ret.result = ReturnNone
        /\ (~AxisUnmapped /\ MeshCovers) => ret.result = Return(PartitionSize)
        /\ ret.result = Raise("ValueError: No resource mapping found")
               => (~AxisUnmapped /\ ~ret.mesh.avail)

\* C8 where a mesh is available and the calling thread is the one that created the holder.
C8_WithMeshInMainThread ==
    (ret.op = "physical_axis_size" /\ ret.mesh.avail /\ ret.thread = MainThread) =>
        /\ AxisUnmapped => ret.result = ReturnNone
        /\ (~AxisUnmapped /\ MeshCovers) => ret.result = Return(PartitionSize)

\* C9: for an Axis (name, n), n >= 0, mapped to physical axes of partition size p >= 1,
\* round_axis_for_partitioning returns the Axis of the same name whose size is the
\* least multiple of p that is >= n; for an axis with no physical mapping it returns
\* the axis unchanged.
C9_RoundContract ==
    ret.op = "round_axis_for_partitioning" =>
        /\ (~AxisUnmapped /\ MeshCovers) =>
              /\ ret.result.tag = "value"
              /\ ret.result.value.name = ret.axis.name
              /\ ret.result.value.size % PartitionSize = 0
              /\ ret.axis.size <= ret.result.value.size
              /\ ret.result.value.size < ret.axis.size + PartitionSize
        /\ AxisUnmapped => ret.result = Return(ret.axis)

\* The rounding half of C9, and its other half where a mesh is available and the
\* calling thread is the one that created the holder.
C9_RoundsUp ==
    (ret.op = "round_axis_for_partitioning" /\ ~AxisUnmapped /\ MeshCovers) =>
        /\ ret.result.tag = "value"
        /\ ret.result.value.name = ret.axis.name
        /\ ret.result.value.size % PartitionSize = 0
        /\ ret.axis.size <= ret.result.value.size
        /\ ret.result.value.size < ret.axis.size + PartitionSize
C9_UnmappedWithMeshInMainThread ==
    (ret.op = "round_axis_for_partitioning" /\ AxisUnmapped
        /\ ret.mesh.avail /\ ret.thread = MainThread)
        => ret.result = Return(ret.axis)

\* ------------------------------------------------------------------ properties of named_pjit

EventNames(log) == [i \in 1..Len(log) |-> log[i].ev]
StepOrder == <<"infer_resource_partitions", "eval_shape", "infer_resource_partitions", "pjit">>

\* How many events the log of a frame holds at each position of f.
StepsDone(pc) ==
    CASE pc = "eval_shape" -> 1
      [] pc = "infer_out" -> 2
      [] pc = "pjit" -> 3
      [] pc = "returned" -> 4

\* C7: a call of a function wrapped by named_pjit infers the partitions of
\* (args, kwargs), then evaluates the shapes of fn, then infers the partitions of those
\* shapes, then calls pjit once, with those two partition trees and (args, kwargs) as
\* the one argument tuple; with no active mapping it fails in the first step, and then
\* neither eval_shape nor pjit is called.
C7_PjitOrder ==
    \A t \in Threads :
        LET f == pj[t]
        IN f.pc # "idle" =>
            /\ resource_mapping[t].kind # "map" =>
                  /\ f.pc = "raised"
                  /\ EventNames(f.log) = <<"infer_resource_partitions">>
                  /\ Raised(f.log[1].out)
            /\ resource_mapping[t].kind = "map" =>
                  /\ f.pc # "raised"
                  /\ EventNames(f.log) = SubSeq(StepOrder, 1, StepsDone(f.pc))
                  /\ f.log[1].tree = f.args
                  /\ Len(f.log) >= 2 => f.log[2].call_args = f.args
                  /\ Len(f.log) >= 3 => f.log[3].tree = f.log[2].shapes
                  /\ Len(f.log) = 4 =>
                        /\ f.log[4].in_axis_resources = f.log[1].out.value
                        /\ f.log[4].out_axis_resources = f.log[3].out.value
                        /\ f.log[4].call_args = f.args

\* A call that has gone through all four steps, with differing input and output
\* partitions, while another thread's call failed in its first step.
C7_Witness ==
    /\ pj[MainThread].pc = "returned"
    /\ pj[MainThread].log[4].in_axis_resources # pj[MainThread].log[4].out_axis_resources
    /\ pj["worker"].pc = "raised"

\* A leaf of the output shapes that infer_resource_partitions does not recognise: any
\* leaf that is not a NamedArray.
RECURSIVE HasUnrecognisedLeaf(_)
HasUnrecognisedLeaf(tree) ==
    IF IsLeaf(tree) THEN tree.tag # "NamedArray"
    ELSE \E i \in 1..Len(tree.kids) : HasUnrecognisedLeaf(tree.kids[i])

\* C10: when the output shapes of a wrapped call hold a leaf that
\* infer_resource_partitions does not recognise, the wrapper fails with a structural
\* mismatch error and does not call pjit with None for that leaf.
C10_MismatchFailsFast ==
    \A t \in Threads :
        (pj[t].pc \in {"pjit", "returned", "raised"}
            /\ pj[t].shapes # NoTree /\ HasUnrecognisedLeaf(pj[t].shapes))
            => /\ pj[t].pc = "raised"
               /\ \A i \in 1..Len(pj[t].log) : pj[t].log[i].ev # "pjit"

\* C10 as the code has it: such a call raises nothing; the inference puts None at every
\* leaf that is not a NamedArray, and pjit is called, once, with that tree as the output
\* partitions.
C10_UnrecognisedLeafGetsNone ==
    \A t \in Threads :
        (pj[t].pc \in {"pjit", "returned", "raised"}
            /\ pj[t].shapes # NoTree /\ HasUnrecognisedLeaf(pj[t].shapes))
            => /\ pj[t].pc # "raised"
               /\ Partitioned(pj[t].shapes, pj[t].out_resources, resource_mapping[t].m)
               /\ pj[t].pc = "returned" =>
                     /\ Cardinality({i \in 1..Len(pj[t].log) : pj[t].log[i].ev = "pjit"}) = 1
                     /\ pj[t].log[4].out_axis_resources = pj[t].out_resources
                     /\ ~Raised(pj[t].result)

\* A call that returned although its output was a bare array, None being its partition.
C10_Witness ==
    /\ pj[MainThread].pc = "returned"
    /\ pj[MainThread].shapes = PlainArray(1)
    /\ pj[MainThread].log[4].out_axis_resources = NoneLeaf

====
